---- MODULE Spec2Model ----
(***************************************************************************)
(* Model of jtb_2023_code/package_data.py: _data_packager builds one       *)
(* multi-layer store (inf_data) from the base counts data set, overlays    *)
(* the per-experiment decay / denoised products on the rows selected by    *)
(* an identifier mask, keeps the wild-type rows, derives the two           *)
(* transcription layers, trims unexpressed features and writes the store.  *)
(*                                                                         *)
(* Matrices are sequences of rows, a row is a sequence of cells.  A cell   *)
(* is a record [k, n, d]: k = "num" is the rational n / d (d > 0, lowest   *)
(* terms), k = "nan" is not-a-number, k = "inf" is the infinity of sign n. *)
(* float32 rounding is not modelled: arithmetic is exact on rationals.     *)
(***************************************************************************)
EXTENDS Integers, Sequences, FiniteSets, TLC

\* ---------------------------------------------------------------- bounds
\* observations (rows) of the base data set
NObs == 3
\* features (columns) of the base data set
NVar == 2
\* experiment keys in data.expts
NExpt == 2
\* most rows one per-experiment product lists
MaxExptRows == 2

Rows == 1..NObs
Cols == 1..NVar
Expts == 1..NExpt

\* ------------------------------------------------------- float arithmetic
NaN == [k |-> "nan", n |-> 0, d |-> 1]
Inf(s) == [k |-> "inf", n |-> s, d |-> 1]

Abs(x) == IF x < 0 THEN -x ELSE x
Sign(x) == IF x < 0 THEN -1 ELSE IF x = 0 THEN 0 ELSE 1

RECURSIVE Gcd(_, _)
Gcd(a, b) == IF b = 0 THEN a ELSE Gcd(b, a % b)

\* the rational n / d (d # 0) in lowest terms with a positive denominator
Frac(n, d) ==
    LET g == Gcd(Abs(n), Abs(d))
        s == IF d < 0 THEN -1 ELSE 1
    IN  [k |-> "num", n |-> (s * n) \div g, d |-> (s * d) \div g]

Num(n) == [k |-> "num", n |-> n, d |-> 1]

IsNaN(a) == a.k = "nan"
IsInf(a) == a.k = "inf"
IsNum(a) == a.k = "num"

\* IEEE addition
FAdd(a, b) ==
    IF IsNaN(a) \/ IsNaN(b) THEN NaN
    ELSE IF IsInf(a) /\ IsInf(b) THEN (IF a.n = b.n THEN a ELSE NaN)
    ELSE IF IsInf(a) THEN a
    ELSE IF IsInf(b) THEN b
    ELSE Frac(a.n * b.d + b.n * a.d, a.d * b.d)

\* np.multiply with not-a-number operands read as zero (np.nan_to_num)
FMulNanAsZero(a, b) ==
    IF IsNaN(a) \/ IsNaN(b) THEN Num(0)
    ELSE IF IsInf(a) \/ IsInf(b)
         THEN (IF Sign(a.n) * Sign(b.n) = 0 THEN NaN ELSE Inf(Sign(a.n) * Sign(b.n)))
    ELSE Frac(a.n * b.n, a.d * b.d)

\* IEEE multiplication
FMul(a, b) ==
    IF IsNaN(a) \/ IsNaN(b) THEN NaN
    ELSE IF IsInf(a) \/ IsInf(b)
         THEN (IF Sign(a.n) * Sign(b.n) = 0 THEN NaN ELSE Inf(Sign(a.n) * Sign(b.n)))
    ELSE Frac(a.n * b.n, a.d * b.d)

\* IEEE division (numpy, warnings ignored): x/0 is an infinity, 0/0 is nan
FDiv(a, b) ==
    IF IsNaN(a) \/ IsNaN(b) THEN NaN
    ELSE IF IsInf(a) /\ IsInf(b) THEN NaN
    ELSE IF IsInf(a) THEN Inf(IF Sign(b.n) < 0 THEN -a.n ELSE a.n)
    ELSE IF IsInf(b) THEN Num(0)
    ELSE IF b.n = 0 THEN (IF a.n = 0 THEN NaN ELSE Inf(Sign(a.n)))
    ELSE Frac(a.n * b.d, a.d * b.n)

\* a > b on numbers; a comparison with nan is False
FGt(a, b) ==
    IF IsNaN(a) \/ IsNaN(b) THEN FALSE
    ELSE IF IsInf(a) THEN a.n > 0 /\ ~(IsInf(b) /\ b.n > 0)
    ELSE IF IsInf(b) THEN b.n < 0
    ELSE a.n * b.d > b.n * a.d

FGe(a, b) == FGt(a, b) \/ (~IsNaN(a) /\ ~IsNaN(b) /\ a = b)

RECURSIVE FSum(_)
FSum(s) == IF s = <<>> THEN Num(0) ELSE FAdd(Head(s), FSum(Tail(s)))

\* ------------------------------------------------------- matrix helpers
Column(m, c) == [r \in 1..Len(m) |-> m[r][c]]
Full(n, w, v) == [r \in 1..n |-> [c \in 1..w |-> v]]

\* the subsequence of s at the positions i with keep[i]
RECURSIVE SelectIdx(_, _, _)
SelectIdx(s, keep, i) ==
    IF i > Len(s) THEN <<>>
    ELSE (IF keep[i] THEN <<s[i]>> ELSE <<>>) \o SelectIdx(s, keep, i + 1)

SubsetRows(m, keep) == SelectIdx(m, keep, 1)
SubsetCols(m, keep) == [r \in 1..Len(m) |-> SelectIdx(m[r], keep, 1)]

\* how many of the first i entries of the mask are True
RECURSIVE CountTrue(_, _)
CountTrue(mask, i) ==
    IF i = 0 THEN 0 ELSE CountTrue(mask, i - 1) + (IF mask[i] THEN 1 ELSE 0)

\* ------------------------------------------------------------- the inputs
\* observation identifier of base row r (obs_names of data.all_data)
BaseId(r) == 10 + r
BaseNames == [r \in Rows |-> BaseId(r)]
\* an identifier no base row carries
ForeignId == BaseId(NObs + 1)

\* the obs column f'program_{p}_time'
TimeCol(p) ==
    CASE p = "0" -> "program_0_time"
      [] p = "1" -> "program_1_time"
      [] OTHER -> "program_2_time"

\* data.all_data: counts layer from a per-row gene label and expressed
\* feature (pat[r] = 0: the row has no counts), decay constants missing on
\* row nanRow (0: on no row), uns["programs"] naming the two time programs
BaseSource(gene, cnt, nanRow, rapa, cc) ==
    [obs_names |-> BaseNames,
     obs |-> [col \in {"Gene", "program_0_time", "program_1_time"} |->
                 IF col = "Gene" THEN gene
                 ELSE IF col = "program_0_time" THEN [r \in Rows |-> Num(r)]
                 ELSE [r \in Rows |-> Num(10 * r)]],
     var_names |-> [c \in Cols |-> c],
     var_cols |-> {"CommonName", "category", "programs", "leiden"},
     counts |-> cnt,
     decay_constants |-> [r \in Rows |-> [c \in Cols |->
                             IF r = nanRow THEN NaN ELSE Num(1 + c)]],
     X_umap |-> [r \in Rows |-> <<Num(r), Num(-r), Num(0)>>],
     X_pca |-> [r \in Rows |-> <<Num(2 * r), Num(3 * r), Num(0)>>],
     programs |-> [rapa_program |-> rapa, cell_cycle_program |-> cc]]

CanonGene == [r \in Rows |-> IF r = 2 THEN "MUT" ELSE "WT"]
CanonCounts == [r \in Rows |-> [c \in Cols |-> IF r = 2 THEN 0 ELSE (r + c) % 3]]
\* row r expresses feature pat[r] only (count r), or nothing when pat[r] = 0
PatCounts(pat) == [r \in Rows |-> [c \in Cols |-> IF c = pat[r] THEN r ELSE 0]]

\* values the upstream stages computed for the observation id, feature c
RapaVelOf(id, c) == IF id = BaseId(2) /\ c = NVar THEN NaN ELSE Num(10 * id + c)
CcVelOf(id, c) == Num(-(10 * id + c))
DenoisedOf(id, c) == IF id = BaseId(1) /\ c = NVar THEN NaN ELSE Num(id + c)
\* per-gene decay constant of experiment e, broadcast over its rows
ExptDecayOf(e, c) == Num(e + c)

\* sequences of 1..MaxExptRows distinct base identifiers, in any order
RECURSIVE InjSeqs(_)
InjSeqs(n) ==
    IF n = 0 THEN {<<>>}
    ELSE LET shorter == InjSeqs(n - 1)
         IN  shorter \cup
             {Append(s, BaseId(r)) : s \in {t \in shorter : Len(t) = n - 1}, r \in Rows}
IdSeqs ==
    {s \in InjSeqs(MaxExptRows) :
        /\ Len(s) >= 1
        /\ \A i, j \in 1..Len(s) : i # j => s[i] # s[j]}

Range(s) == {s[i] : i \in 1..Len(s)}

\* the files of one experiment: both products list the same identifiers
Product(names) ==
    [has_decay |-> TRUE, decay_names |-> names,
     has_denoised |-> TRUE, denoised_names |-> names]

AnomalyKinds == {"missing_decay", "missing_denoised", "short", "long", "foreign"}

\* one defect of an experiment's files
Anomalous(p, kind) ==
    CASE kind = "missing_decay" -> [p EXCEPT !.has_decay = FALSE]
      [] kind = "missing_denoised" -> [p EXCEPT !.has_denoised = FALSE]
      [] kind = "short" -> [p EXCEPT !.denoised_names = <<p.decay_names[1]>>]
      [] kind = "long" -> [p EXCEPT !.denoised_names = Append(p.decay_names, ForeignId)]
      [] OTHER -> [p EXCEPT !.decay_names = Append(p.decay_names, ForeignId)]

\* experiments partition the observations: no identifier in two products
DisjointNames(names) ==
    \A e1, e2 \in Expts : e1 # e2 => Range(names[e1]) \cap Range(names[e2]) = {}

NormalCatalogs ==
    {[e \in Expts |-> Product(names[e])] :
        names \in {nm \in [Expts -> IdSeqs] : DisjointNames(nm)}}

Catalogs ==
    NormalCatalogs \cup
    {[cat EXCEPT ![e] = Anomalous(cat[e], kind)] :
        cat \in NormalCatalogs, e \in Expts, kind \in AnomalyKinds}

CanonCatalog == [e \in Expts |-> Product(<<BaseId(e)>>)]

\* ------------------------------------------------ the catalog's loaders
\* data.decay_data(*k)
decay_data(cat, e) ==
    LET names == cat[e].decay_names
    IN  [obs_names |-> names,
         layers |->
            [rapamycin_velocity |->
                [i \in 1..Len(names) |-> [c \in Cols |-> RapaVelOf(names[i], c)]],
             cell_cycle_velocity |->
                [i \in 1..Len(names) |-> [c \in Cols |-> CcVelOf(names[i], c)]],
             decay_constants |->
                [i \in 1..Len(names) |-> [c \in Cols |-> ExptDecayOf(e, c)]]]]

\* data.denoised_data(*k)
denoised_data(cat, e) ==
    LET names == cat[e].denoised_names
    IN  [obs_names |-> names,
         X |-> [i \in 1..Len(names) |-> [c \in Cols |-> DenoisedOf(names[i], c)]]]

\* --------------------------------------------------------------- state
VARIABLES
    src,        \* data.all_data as the data object loads it
    catalog,    \* the per-experiment product files behind data.decay_data / denoised_data
    out_file,   \* the out_file argument: "None" or a path
    pc,         \* position in _data_packager
    inf_data,   \* the store under construction
    k,          \* index in data.expts of the loop's current key (0 before the loop)
    dd,         \* key of the decay product bound to the local dd (0: unbound)
    dn,         \* key of the denoised product the statement at hand holds (0: none)
    expt_idx,   \* _expt_idx, the boolean row mask (<<>> before the loop)
    held,       \* the per-experiment product objects alive
    refs,       \* the live references to the base source and its matrices
    gc_passes,  \* gc.collect() calls so far
    merged,     \* keys whose loop iteration has completed, in order
    written     \* what inf_data.write put at out_file (<<>>: nothing)

vars == <<src, catalog, out_file, pc, inf_data, k, dd, dn, expt_idx, held, refs,
          gc_passes, merged, written>>

NoStore ==
    [obs_names |-> <<>>, obs |-> <<>>, var_names |-> <<>>, var_cols |-> {},
     X |-> <<>>, layers |-> <<>>]

\* ------------------------------------------------------ store operations
\* adata[keep, :]: obs and every layer subset identically, var untouched
SubsetObs(store, keep) ==
    [store EXCEPT
        !.obs_names = SelectIdx(@, keep, 1),
        !.obs = [col \in DOMAIN @ |-> SelectIdx(@[col], keep, 1)],
        !.X = SubsetRows(@, keep),
        !.layers = [name \in DOMAIN @ |-> SubsetRows(@[name], keep)]]

\* adata[:, keep]
SubsetVar(store, keep) ==
    [store EXCEPT
        !.var_names = SelectIdx(@, keep, 1),
        !.X = SubsetCols(@, keep),
        !.layers = [name \in DOMAIN @ |-> SubsetCols(@[name], keep)]]

SetLayer(store, name, m) == [store EXCEPT !.layers = (name :> m) @@ @]
SetObs(store, col, v) == [store EXCEPT !.obs = (col :> v) @@ @]

\* s in ascending order (insertion sort on numbers)
RECURSIVE Insert(_, _)
Insert(x, s) ==
    IF s = <<>> THEN <<x>>
    ELSE IF FGt(x, Head(s)) THEN <<Head(s)>> \o Insert(x, Tail(s))
    ELSE <<x>> \o s
RECURSIVE Sorted(_)
Sorted(s) == IF s = <<>> THEN <<>> ELSE Insert(Head(s), Sorted(Tail(s)))

\* np.median: the middle value, or the mean of the two middle values
Median(s) ==
    LET t == Sorted(s)
        n == Len(t)
    IN  IF n = 0 THEN NaN
        ELSE IF n % 2 = 1 THEN t[(n + 1) \div 2]
        ELSE FDiv(FAdd(t[n \div 2], t[n \div 2 + 1]), Num(2))

\* sc.pp.normalize_per_cell(adata, min_counts=...), counts_per_cell_after and
\* counts_per_cell left at None: cells under min_counts total are removed,
\* the target is the median total, a zero total is replaced by one, and every
\* row is scaled by 1 / (total / target)
normalize_per_cell(store, min_counts) ==
    LET total == [r \in 1..Len(store.X) |-> FSum(store.X[r])]
        cell_subset == [r \in 1..Len(total) |-> FGe(total[r], Num(min_counts))]
        kept == SubsetObs(SetObs(store, "n_counts", total), cell_subset)
        counts_per_cell == SelectIdx(total, cell_subset, 1)
        after == Median(counts_per_cell)
        scaled == [r \in 1..Len(counts_per_cell) |->
                      FDiv(FAdd(counts_per_cell[r],
                                IF counts_per_cell[r] = Num(0) THEN Num(1) ELSE Num(0)),
                           after)]
    IN  [kept EXCEPT
            !.X = [r \in 1..Len(@) |-> [c \in 1..Len(@[r]) |->
                      FMul(@[r][c], FDiv(Num(1), scaled[r]))]]]

\* the call of line 73, sc.pp.normalize_per_cell(inf_data, min_counts=0)
NormalizeCallDefault(store) == normalize_per_cell(store, 1)
NormalizeCall(store) == normalize_per_cell(store, 0)

\* obs_names.isin(names)
isinAll(obs_names, names) == [r \in 1..Len(obs_names) |-> TRUE]
isin(obs_names, names) == [r \in 1..Len(obs_names) |-> obs_names[r] \in Range(names)]

\* numpy's shape rule for layer[mask, :] = value: as many rows as the mask
\* selects, or one row to broadcast
CanAssignAny(mask, value) == TRUE
CanAssign(mask, value) ==
    \/ Len(value) = CountTrue(mask, Len(mask))
    \/ Len(value) = 1

\* layer[mask, :] = value: the i-th selected row takes the value's i-th row
\* (its only row when broadcast); the other rows are left alone
MaskedAssign(layer, mask, value) ==
    [r \in 1..Len(layer) |->
        IF mask[r]
        THEN value[((CountTrue(mask, r) - 1) % Len(value)) + 1]
        ELSE layer[r]]

\* data._unload(): the data object drops its reference to all_data
unload(r) == r \ {"data.all_data"}

\* del dd
DelDdKept(h, key) == h
DelDd(h, key) == h \ {[key |-> key, kind |-> "decay"]}

\* the for statement runs out of keys
LoopDone(i) == i = NExpt

\* inf_data.obs["Gene"] == "WT"
WtIndexCoveredOnly(store) ==
    [r \in 1..Len(store.obs_names) |->
        /\ store.obs["Gene"][r] = "WT"
        /\ \E c \in 1..Len(store.var_names) : ~IsNaN(store.layers["denoised"][r][c])]
WtIndex(store) == [r \in 1..Len(store.obs_names) |-> store.obs["Gene"][r] = "WT"]

\* inf_data.X.sum(axis=0).A1 > 0
HasExpressionGe(store) ==
    [c \in 1..Len(store.var_names) |-> FGe(FSum(Column(store.X, c)), Num(0))]
HasExpression(store) ==
    [c \in 1..Len(store.var_names) |-> FGt(FSum(Column(store.X, c)), Num(0))]

\* velocity.copy() += np.multiply(decay_constants, denoised)
TranscriptionOf(store, velocity) ==
    LET v == store.layers[velocity]
        dc == store.layers["decay_constants"]
        dx == store.layers["denoised"]
    IN  [r \in 1..Len(v) |-> [c \in 1..Len(v[r]) |->
            FAdd(v[r][c], FMul(dc[r][c], dx[r][c]))]]

\* ------------------------------------------------------------ the inputs
\* catalogs of every shape over one fixed base data set
InitMerge ==
    /\ \E nanRow \in 0..NObs :
          src = BaseSource(CanonGene, CanonCounts, nanRow, "0", "1")
    /\ catalog \in Catalogs
    /\ out_file = "out.h5ad"

\* base data sets of every shape over one fixed catalog
InitDerive ==
    /\ \E gene \in [Rows -> {"WT", "MUT"}], pat \in [Rows -> 0..NVar] :
          src = BaseSource(gene, PatCounts(pat), 0, "0", "1")
    /\ catalog = CanonCatalog
    /\ out_file = "out.h5ad"

\* the program ids uns names (there is no program "2") and the out_file argument
InitArgs ==
    /\ \E rapa, cc \in {"0", "1", "2"} :
          src = BaseSource(CanonGene, CanonCounts, 0, rapa, cc)
    /\ catalog = CanonCatalog
    /\ out_file \in {"None", "out.h5ad"}

Init ==
    /\ InitMerge \/ InitDerive \/ InitArgs
    /\ pc = "start"
    /\ inf_data = NoStore
    /\ k = 0
    /\ dd = 0
    /\ dn = 0
    /\ expt_idx = <<>>
    /\ held = {}
    /\ refs = {}
    /\ gc_passes = 0
    /\ merged = <<>>
    /\ written = <<>>

\* ------------------------------------------------------------- the steps
\* an exception leaves _data_packager: its locals are dropped, nothing is written
Raise ==
    /\ pc' = "aborted"
    /\ dd' = 0
    /\ dn' = 0
    /\ held' = {}
    /\ refs' = refs \ {"_all", "inf_data.layers[decay_constants]"}

\* lines 43-52: _all = data.all_data; inf_data = AnnData(counts.copy(), ...);
\* the decay_constants layer is the source's own array
CreateInfData ==
    /\ pc = "start"
    /\ inf_data' =
          [obs_names |-> src.obs_names,
           obs |-> src.obs,
           var_names |-> src.var_names,
           var_cols |-> src.var_cols \cap {"CommonName", "category", "programs"},
           X |-> [r \in Rows |-> [c \in Cols |-> Num(src.counts[r][c])]],
           layers |-> ("decay_constants" :> src.decay_constants)]
    /\ refs' = {"data.all_data", "_all", "inf_data.layers[decay_constants]"}
    /\ pc' = "obs_cols"
    /\ UNCHANGED <<src, catalog, out_file, k, dd, dn, expt_idx, held, gc_passes,
                   merged, written>>

\* lines 54-63: embedding coordinates, then the two program time columns,
\* looked up under the names uns["programs"] gives (KeyError when absent)
CopyObsColumns ==
    /\ pc = "obs_cols"
    /\ LET rapa == TimeCol(src.programs.rapa_program)
           cc == TimeCol(src.programs.cell_cycle_program)
           emb == SetObs(SetObs(SetObs(SetObs(inf_data,
                     "UMAP_1", Column(src.X_umap, 1)),
                     "UMAP_2", Column(src.X_umap, 2)),
                     "PCA_1", Column(src.X_pca, 1)),
                     "PCA_2", Column(src.X_pca, 2))
       IN  IF rapa \notin DOMAIN emb.obs
           THEN inf_data' = emb /\ Raise
           ELSE LET withRapa == SetObs(emb, "program_rapa_time", emb.obs[rapa])
                IN  IF cc \notin DOMAIN withRapa.obs
                    THEN inf_data' = withRapa /\ Raise
                    ELSE /\ inf_data' =
                               SetObs(withRapa, "program_cc_time", withRapa.obs[cc])
                         /\ pc' = "unload"
                         /\ UNCHANGED <<dd, dn, held, refs>>
    /\ UNCHANGED <<src, catalog, out_file, k, expt_idx, gc_passes, merged, written>>

\* line 66: data._unload()
Unload ==
    /\ pc = "unload"
    /\ refs' = unload(refs)
    /\ pc' = "snapshot"
    /\ UNCHANGED <<src, catalog, out_file, inf_data, k, dd, dn, expt_idx, held,
                   gc_passes, merged, written>>

\* lines 70-71: layers["counts"] = X.copy(); X = X.astype(np.float32)
SnapshotCounts ==
    /\ pc = "snapshot"
    /\ inf_data' = SetLayer(inf_data, "counts", inf_data.X)
    /\ pc' = "normalize"
    /\ UNCHANGED <<src, catalog, out_file, k, dd, dn, expt_idx, held, refs,
                   gc_passes, merged, written>>

\* line 73
Normalize ==
    /\ pc = "normalize"
    /\ inf_data' = NormalizeCall(inf_data)
    /\ pc' = "init_layers"
    /\ UNCHANGED <<src, catalog, out_file, k, dd, dn, expt_idx, held, refs,
                   gc_passes, merged, written>>

\* lines 76-86: three layers of X's shape filled with nan
InitLayers ==
    /\ pc = "init_layers"
    /\ LET blank == Full(Len(inf_data.X), Len(inf_data.var_names), NaN)
       IN  inf_data' =
              SetLayer(SetLayer(SetLayer(inf_data,
                  "rapamycin_velocity", blank),
                  "cell_cycle_velocity", blank),
                  "denoised", blank)
    /\ pc' = "loop"
    /\ UNCHANGED <<src, catalog, out_file, k, dd, dn, expt_idx, held, refs,
                   gc_passes, merged, written>>

\* line 88: the for statement takes the next key of data.expts
NextExpt ==
    /\ pc = "loop"
    /\ ~LoopDone(k)
    /\ k' = k + 1
    /\ pc' = "load_decay"
    /\ UNCHANGED <<src, catalog, out_file, inf_data, dd, dn, expt_idx, held, refs,
                   gc_passes, merged, written>>

\* line 88: no key is left
LoopExit ==
    /\ pc = "loop"
    /\ LoopDone(k)
    /\ pc' = "filter"
    /\ UNCHANGED <<src, catalog, out_file, inf_data, k, dd, dn, expt_idx, held, refs,
                   gc_passes, merged, written>>

\* line 89, right-hand side: data.decay_data(*k) reads the product
LoadDecay ==
    /\ pc = "load_decay"
    /\ IF ~catalog[k].has_decay
       THEN Raise
       ELSE /\ held' = held \cup {[key |-> k, kind |-> "decay"]}
            /\ pc' = "bind_dd"
            /\ UNCHANGED <<dd, dn, refs>>
    /\ UNCHANGED <<src, catalog, out_file, inf_data, k, expt_idx, gc_passes, merged,
                   written>>

\* line 89, the binding: dd names the new product, what it named before is dropped
BindDd ==
    /\ pc = "bind_dd"
    /\ dd' = k
    /\ held' = IF dd = k THEN held ELSE held \ {[key |-> dd, kind |-> "decay"]}
    /\ pc' = "mask"
    /\ UNCHANGED <<src, catalog, out_file, inf_data, k, dn, expt_idx, refs, gc_passes,
                   merged, written>>

\* lines 90-92: _expt_idx = inf_data.obs_names.isin(dd.obs_names)
ComputeMask ==
    /\ pc = "mask"
    /\ expt_idx' = isin(inf_data.obs_names, decay_data(catalog, dd).obs_names)
    /\ pc' = "load_denoised"
    /\ UNCHANGED <<src, catalog, out_file, inf_data, k, dd, dn, held, refs, gc_passes,
                   merged, written>>

\* line 94, right-hand side: data.denoised_data(*k).X
LoadDenoised ==
    /\ pc = "load_denoised"
    /\ IF ~catalog[k].has_denoised
       THEN Raise
       ELSE /\ dn' = k
            /\ held' = held \cup {[key |-> k, kind |-> "denoised"]}
            /\ pc' = "assign_denoised"
            /\ UNCHANGED <<dd, refs>>
    /\ UNCHANGED <<src, catalog, out_file, inf_data, k, expt_idx, gc_passes, merged,
                   written>>

\* line 94: layers["denoised"][_expt_idx, :] = <the denoised matrix>; the
\* temporary is dropped when the statement ends
AssignDenoised ==
    /\ pc = "assign_denoised"
    /\ LET value == denoised_data(catalog, dn).X
       IN  IF ~CanAssign(expt_idx, value)
           THEN Raise /\ UNCHANGED inf_data
           ELSE /\ inf_data' = SetLayer(inf_data, "denoised",
                      MaskedAssign(inf_data.layers["denoised"], expt_idx, value))
                /\ dn' = 0
                /\ held' = held \ {[key |-> dn, kind |-> "denoised"]}
                /\ pc' = "assign_rapa"
                /\ UNCHANGED <<dd, refs>>
    /\ UNCHANGED <<src, catalog, out_file, k, expt_idx, gc_passes, merged, written>>

\* lines 95-97: layers["rapamycin_velocity"][_expt_idx, :] = dd.layers[...]
AssignRapa ==
    /\ pc = "assign_rapa"
    /\ LET value == decay_data(catalog, dd).layers.rapamycin_velocity
       IN  IF ~CanAssign(expt_idx, value)
           THEN Raise /\ UNCHANGED inf_data
           ELSE /\ inf_data' = SetLayer(inf_data, "rapamycin_velocity",
                      MaskedAssign(inf_data.layers["rapamycin_velocity"], expt_idx, value))
                /\ pc' = "assign_cc"
                /\ UNCHANGED <<dd, dn, held, refs>>
    /\ UNCHANGED <<src, catalog, out_file, k, expt_idx, gc_passes, merged, written>>

\* lines 98-100: layers["cell_cycle_velocity"][_expt_idx, :] = dd.layers[...]
AssignCc ==
    /\ pc = "assign_cc"
    /\ LET value == decay_data(catalog, dd).layers.cell_cycle_velocity
       IN  IF ~CanAssign(expt_idx, value)
           THEN Raise /\ UNCHANGED inf_data
           ELSE /\ inf_data' = SetLayer(inf_data, "cell_cycle_velocity",
                      MaskedAssign(inf_data.layers["cell_cycle_velocity"], expt_idx, value))
                /\ pc' = "release"
                /\ UNCHANGED <<dd, dn, held, refs>>
    /\ UNCHANGED <<src, catalog, out_file, k, expt_idx, gc_passes, merged, written>>

\* lines 102-104: del dd; gc.collect()
ReleaseExpt ==
    /\ pc = "release"
    /\ held' = DelDd(held, dd)
    /\ dd' = 0
    /\ gc_passes' = gc_passes + 1
    /\ merged' = Append(merged, k)
    /\ pc' = "loop"
    /\ UNCHANGED <<src, catalog, out_file, inf_data, k, dn, expt_idx, refs, written>>

\* lines 106-113: inf_data = inf_data[_wt_idx, :].copy(); the copy owns its arrays
FilterWT ==
    /\ pc = "filter"
    /\ inf_data' = SubsetObs(inf_data, WtIndex(inf_data))
    /\ refs' = refs \ {"inf_data.layers[decay_constants]"}
    /\ pc' = "transcription"
    /\ UNCHANGED <<src, catalog, out_file, k, dd, dn, expt_idx, held, gc_passes,
                   merged, written>>

\* lines 133-145: the two transcription layers
Transcription ==
    /\ pc = "transcription"
    /\ inf_data' =
          SetLayer(SetLayer(inf_data,
              "rapamycin_transcription", TranscriptionOf(inf_data, "rapamycin_velocity")),
              "cell_cycle_transcription", TranscriptionOf(inf_data, "cell_cycle_velocity"))
    /\ pc' = "trim"
    /\ UNCHANGED <<src, catalog, out_file, k, dd, dn, expt_idx, held, refs, gc_passes,
                   merged, written>>

\* lines 156-160: drop the features without expression, when there is one
Trim ==
    /\ pc = "trim"
    /\ LET has == HasExpression(inf_data)
       IN  inf_data' =
              IF \A c \in 1..Len(has) : has[c] THEN inf_data ELSE SubsetVar(inf_data, has)
    /\ pc' = "write"
    /\ UNCHANGED <<src, catalog, out_file, k, dd, dn, expt_idx, held, refs, gc_passes,
                   merged, written>>

\* lines 162-166: inf_data.write(out_file), then return
Write ==
    /\ pc = "write"
    /\ out_file # "None"
    /\ written' = <<inf_data>>
    /\ refs' = refs \ {"_all"}
    /\ pc' = "done"
    /\ UNCHANGED <<src, catalog, out_file, inf_data, k, dd, dn, expt_idx, held,
                   gc_passes, merged>>

\* lines 162, 166: out_file is None, return without writing
ReturnOnly ==
    /\ pc = "write"
    /\ out_file = "None"
    /\ refs' = refs \ {"_all"}
    /\ pc' = "done"
    /\ UNCHANGED <<src, catalog, out_file, inf_data, k, dd, dn, expt_idx, held,
                   gc_passes, merged, written>>

Next ==
    \/ CreateInfData
    \/ CopyObsColumns
    \/ Unload
    \/ SnapshotCounts
    \/ Normalize
    \/ InitLayers
    \/ NextExpt
    \/ LoopExit
    \/ LoadDecay
    \/ BindDd
    \/ ComputeMask
    \/ LoadDenoised
    \/ AssignDenoised
    \/ AssignRapa
    \/ AssignCc
    \/ ReleaseExpt
    \/ FilterWT
    \/ Transcription
    \/ Trim
    \/ Write
    \/ ReturnOnly

Spec == Init /\ [][Next]_vars

\* ------------------------------------------------------------ properties
LayerNames == {"denoised", "rapamycin_velocity", "cell_cycle_velocity"}
LoopPcs ==
    {"loop", "load_decay", "bind_dd", "mask", "load_denoised", "assign_denoised",
     "assign_rapa", "assign_cc", "release"}
PostLoopPcs == {"filter", "transcription", "trim", "write", "done"}
PostFilterPcs == {"transcription", "trim", "write", "done"}

StoreRows == 1..Len(inf_data.obs_names)
StoreCols == 1..Len(inf_data.var_names)

\* identifiers some experiment's decay product lists
CoveredIds == UNION {Range(catalog[e].decay_names) : e \in Expts}

\* C1: after the per-experiment loop, every output row whose identifier occurs
\* in an experiment's decay product holds, in both velocity layers, the row of
\* that product carrying the same identifier, whatever order the product lists
\* its identifiers in.
C1_RowMergeByIdentifier ==
    pc = "filter" =>
        \A e \in Expts :
            LET D == decay_data(catalog, e)
            IN  \A r \in StoreRows : \A i \in 1..Len(D.obs_names) :
                    D.obs_names[i] = inf_data.obs_names[r] =>
                        /\ inf_data.layers["rapamycin_velocity"][r]
                              = D.layers.rapamycin_velocity[i]
                        /\ inf_data.layers["cell_cycle_velocity"][r]
                              = D.layers.cell_cycle_velocity[i]

\* C2: when an iteration of the per-experiment loop has made its assignments,
\* the decay_constants layer holds the experiment's decay constants on the rows
\* the experiment's identifier mask selects.
C2_DecayMergedPerExperiment ==
    pc = "release" =>
        LET D == decay_data(catalog, k)
        IN  \A r \in StoreRows : \A i \in 1..Len(D.obs_names) :
                D.obs_names[i] = inf_data.obs_names[r] =>
                    inf_data.layers["decay_constants"][r] = D.layers.decay_constants[i]

\* t = v + dc * dx on rationals, and nan as soon as one operand is nan
TranscriptionCell(t, v, dc, dx) ==
    IF IsNaN(v) \/ IsNaN(dc) \/ IsNaN(dx) THEN IsNaN(t)
    ELSE IF IsNum(v) /\ IsNum(dc) /\ IsNum(dx)
         THEN /\ IsNum(t)
              /\ t.n * (v.d * dc.d * dx.d) = t.d * (v.n * dc.d * dx.d + dc.n * dx.n * v.d)
    ELSE TRUE

\* C3: in the store _data_packager derives and returns, every retained cell of
\* rapamycin_transcription is rapamycin_velocity + decay_constants * denoised,
\* likewise for the cell-cycle pair, and the cell is not-a-number whenever one
\* of the three operands is.
C3_TranscriptionDerivation ==
    pc \in {"trim", "write", "done"} =>
        \A r \in StoreRows : \A c \in StoreCols :
            /\ TranscriptionCell(inf_data.layers["rapamycin_transcription"][r][c],
                                 inf_data.layers["rapamycin_velocity"][r][c],
                                 inf_data.layers["decay_constants"][r][c],
                                 inf_data.layers["denoised"][r][c])
            /\ TranscriptionCell(inf_data.layers["cell_cycle_transcription"][r][c],
                                 inf_data.layers["cell_cycle_velocity"][r][c],
                                 inf_data.layers["decay_constants"][r][c],
                                 inf_data.layers["denoised"][r][c])

\* a returned store with a cell lacking only its decay constant (nan result)
\* and a cell with all three operands (a number other than the velocity)
C3_Witness ==
    /\ pc = "done"
    /\ \E r \in StoreRows : \E c \in StoreCols :
          /\ IsNaN(inf_data.layers["decay_constants"][r][c])
          /\ IsNum(inf_data.layers["rapamycin_velocity"][r][c])
          /\ IsNum(inf_data.layers["denoised"][r][c])
          /\ IsNaN(inf_data.layers["rapamycin_transcription"][r][c])
    /\ \E r \in StoreRows : \E c \in StoreCols :
          /\ IsNum(inf_data.layers["rapamycin_transcription"][r][c])
          /\ inf_data.layers["rapamycin_transcription"][r][c]
                # inf_data.layers["rapamycin_velocity"][r][c]

\* a step of the loop leaves the rows outside the current experiment's product alone
MergeFrame ==
    /\ pc = "loop" => inf_data' = inf_data
    /\ pc \in LoopPcs \ {"loop"} =>
          \A name \in LayerNames : \A r \in StoreRows :
              inf_data.obs_names[r] \notin Range(catalog[k].decay_names) =>
                  inf_data'.layers[name][r] = inf_data.layers[name][r]

UncoveredStayMissing ==
    pc \in PostLoopPcs =>
        \A name \in LayerNames : \A r \in StoreRows : \A c \in StoreCols :
            inf_data.obs_names[r] \notin CoveredIds => IsNaN(inf_data.layers[name][r][c])

\* C4: every step of a merge iteration changes the denoised and the two
\* velocity layers only on rows whose identifier the experiment's product
\* lists; after the loop every row in no experiment's product is all
\* not-a-number in the three layers.
C4_UncoveredRowsStayMissing == [][MergeFrame]_vars /\ []UncoveredStayMissing

\* the loop is over: one row was merged (it holds numbers), another is in no product
C4_Witness ==
    /\ pc = "filter"
    /\ \E r \in StoreRows : inf_data.obs_names[r] \notin CoveredIds
    /\ \E r \in StoreRows :
          /\ inf_data.obs_names[r] \in CoveredIds
          /\ IsNum(inf_data.layers["rapamycin_velocity"][r][1])
          /\ IsNum(inf_data.layers["denoised"][r][1])

\* C5: in the returned store no retained feature has a zero column sum over
\* the retained rows (all wild-type) of the primary matrix, and the trim's own
\* test (sum > 0) applied again keeps every feature.
C5_FeatureTrim ==
    pc = "done" =>
        /\ \A r \in StoreRows : inf_data.obs["Gene"][r] = "WT"
        /\ \A c \in StoreCols :
              /\ FSum(Column(inf_data.X, c)) # Num(0)
              /\ FGt(FSum(Column(inf_data.X, c)), Num(0))

\* a returned store that kept a row and a feature and lost a feature that
\* only the dropped rows express
C5_Witness ==
    /\ pc = "done"
    /\ Len(inf_data.obs_names) >= 1
    /\ Len(inf_data.var_names) >= 1
    /\ \E c \in Cols :
          /\ c \notin Range(inf_data.var_names)
          /\ \E r \in Rows : src.counts[r][c] > 0

\* C6: the normalization of line 73 removes no row, leaves every row whose
\* total count is zero as it was (all zeros), and the primary matrix never
\* holds not-a-number or an infinity.
C6_ZeroTotalRows ==
    /\ \A r \in 1..Len(inf_data.X) : \A c \in 1..Len(inf_data.X[r]) :
          IsNum(inf_data.X[r][c])
    /\ pc \in {"init_layers"} \cup LoopPcs \cup {"filter"} =>
          /\ inf_data.obs_names = src.obs_names
          /\ Len(inf_data.X) = NObs
          /\ \A r \in Rows :
                (\A c \in Cols : src.counts[r][c] = 0) =>
                    \A c \in Cols : inf_data.X[r][c] = Num(0)

\* normalized: one row had no counts, another row was rescaled
C6_Witness ==
    /\ pc = "init_layers"
    /\ \E r \in Rows : \A c \in Cols : src.counts[r][c] = 0
    /\ \E r \in Rows : \E c \in Cols :
          /\ src.counts[r][c] > 0
          /\ inf_data.X[r][c] # Num(src.counts[r][c])

\* from the inputs alone: no step of the run can fail
ProgramsDefined ==
    /\ TimeCol(src.programs.rapa_program) \in DOMAIN src.obs
    /\ TimeCol(src.programs.cell_cycle_program) \in DOMAIN src.obs
ShapesFit(e) ==
    LET selected == Cardinality(Range(src.obs_names) \cap Range(catalog[e].decay_names))
    IN  /\ Len(catalog[e].decay_names) \in {selected, 1}
        /\ Len(catalog[e].denoised_names) \in {selected, 1}
RunCanComplete ==
    /\ ProgramsDefined
    /\ \A e \in Expts :
          catalog[e].has_decay /\ catalog[e].has_denoised /\ ShapesFit(e)

\* C7: a run in which a step fails (a missing product, an undefined time
\* column, a shape mismatch in a merge assignment) ends without anything
\* written; what is written is the final store of a run whose every step
\* completed.
C7_NoPartialOutput ==
    /\ pc = "aborted" => written = <<>>
    /\ ~RunCanComplete => written = <<>>
    /\ written # <<>> =>
          /\ pc = "done"
          /\ written = <<inf_data>>
          /\ merged = [e \in Expts |-> e]

\* a run that failed in the last experiment, after earlier merges changed
\* the store in memory
C7_Witness ==
    /\ pc = "aborted"
    /\ k = NExpt
    /\ Len(merged) = NExpt - 1
    /\ \E r \in StoreRows : IsNum(inf_data.layers["denoised"][r][1])
    /\ written = <<>>

\* C8: the base source is released after the output store's fields were
\* copied and before the first per-experiment product is loaded, and from the
\* release on nothing refers to the base source or to one of its matrices.
C8_BaseSourceReleased ==
    /\ pc \in {"start", "obs_cols", "unload"} => held = {} /\ k = 0
    /\ pc \notin {"start", "obs_cols", "unload", "aborted"} => refs = {}

\* the loop's keys so far are the catalog's, in order
InKeyOrder(s) == \A i \in 1..Len(s) : s[i] = i

\* C9: experiments are merged one at a time in the catalog's key order; every
\* product alive belongs to the loop's current key; when one is alive, every
\* earlier key's iteration has completed, released its products and run a
\* collection pass; a completed key's products are not bound again.
C9_OneExperimentAtATime ==
    /\ InKeyOrder(merged)
    /\ Len(merged) \in {k - 1, k}
    /\ \A h \in held : h.key = k
    /\ dd \in {0, k} /\ dn \in {0, k}
    /\ dd # 0 => [key |-> dd, kind |-> "decay"] \in held
    /\ dn # 0 => [key |-> dn, kind |-> "denoised"] \in held
    /\ held # {} \/ dd # 0 \/ dn # 0 =>
          /\ Len(merged) = k - 1
          /\ gc_passes = k - 1
    /\ pc \in PostLoopPcs => held = {} /\ gc_passes = NExpt

\* the last key's two products are alive, every earlier key is released
C9_Witness ==
    /\ k = NExpt
    /\ held = {[key |-> k, kind |-> "decay"], [key |-> k, kind |-> "denoised"]}
    /\ Len(merged) = NExpt - 1
    /\ gc_passes = NExpt - 1

\* base rows labelled wild-type, in base order
WtBaseNames ==
    SelectIdx(src.obs_names, [r \in Rows |-> src.obs["Gene"][r] = "WT"], 1)

FilterAfterMerge ==
    /\ pc \in {"init_layers"} \cup LoopPcs \cup {"filter"} =>
          inf_data.obs_names = src.obs_names
    /\ pc \in PostFilterPcs =>
          /\ merged = [e \in Expts |-> e]
          /\ inf_data.obs_names = WtBaseNames
    /\ pc \in {"transcription", "trim"} => inf_data.var_names = src.var_names

\* the trim keeps exactly the features some row of the store at hand expresses
TrimOverFiltered ==
    pc = "trim" =>
        /\ inf_data.obs_names = WtBaseNames
        /\ \A c \in StoreCols :
              inf_data.var_names[c] \in Range(inf_data'.var_names)
                  <=> \E r \in StoreRows : FGt(inf_data.X[r][c], Num(0))

\* C10: the wild-type row filter is applied only after every experiment key
\* was merged, the feature trim is computed only after it and over the rows it
\* kept, and the returned store holds exactly the base rows labelled "WT",
\* covered by an experiment or not.
C10_FilterThenTrim == []FilterAfterMerge /\ [][TrimOverFiltered]_vars

\* returned: a wild-type row no experiment covers is kept, a covered mutant
\* row is dropped, and with it the only expression of a feature
C10_Witness ==
    /\ pc = "done"
    /\ \E r \in Rows :
          /\ src.obs["Gene"][r] = "WT"
          /\ src.obs_names[r] \notin CoveredIds
          /\ src.obs_names[r] \in Range(inf_data.obs_names)
    /\ \E r \in Rows :
          /\ src.obs["Gene"][r] = "MUT"
          /\ src.obs_names[r] \in CoveredIds
          /\ src.obs_names[r] \notin Range(inf_data.obs_names)
          /\ \E c \in Cols :
                src.counts[r][c] > 0 /\ c \notin Range(inf_data.var_names)

====
